---- MODULE Spec2Model ----
(***************************************************************************)
(* ConceptManager.getRelatedConcepts (scripts/ConceptManager.js) and the   *)
(* ConceptWrappers that call it, as a state machine over a Dataview vault. *)
(*                                                                         *)
(* A JavaScript value is a record [t, v]: t is the kind of value and v the *)
(* strings it holds (one for a string, the elements for an array).         *)
(* File paths are sequences of one-character strings, so that              *)
(* String.startsWith, split('/') and join('/') are computed character by   *)
(* character.  Scores are kept in half points (scoreMultiplier 1.5 is 3),  *)
(* and a confidence is the exact fraction num/den of the percentage.       *)
(***************************************************************************)
EXTENDS Integers, Sequences, FiniteSets, TLC

VARIABLES pages, current, called, calls, options, results, filtered,
          conceptCache, relationsCache, wrapper, output, argument

vars == <<pages, current, called, calls, options, results, filtered,
          conceptCache, relationsCache, wrapper, output, argument>>

-----------------------------------------------------------------------------
(* JavaScript values *)

Undefined == [t |-> "undefined", v |-> <<>>]
Null == [t |-> "null", v |-> <<>>]
True == [t |-> "true", v |-> <<>>]
False == [t |-> "false", v |-> <<>>]
Str(s) == [t |-> "string", v |-> <<s>>]
Arr(a) == [t |-> "array", v |-> a]

\* !x is false: every array (also the empty one) and every non-empty string.
Truthy(x) ==
    \/ x.t = "true"
    \/ x.t = "array"
    \/ x.t = "string" /\ x.v[1] # ""

IsArray(x) == x.t = "array"

\* Array.isArray(x) ? x : [x], as the list of its element values
AsArray(x) ==
    IF IsArray(x) THEN [i \in 1..Len(x.v) |-> Str(x.v[i])] ELSE <<x>>

\* list.includes(x): strict equality; an array is never equal to a string
Includes(list, x) == \E i \in 1..Len(list) : list[i] = x

\* list.filter(v => other.includes(v)).length
RECURSIVE CountIncluded(_, _)
CountIncluded(list, other) ==
    IF list = <<>> THEN 0
    ELSE (IF Includes(other, Head(list)) THEN 1 ELSE 0)
         + CountIncluded(Tail(list), other)

\* whole points in the half-point unit of the scores
Pts(n) == 2 * n

-----------------------------------------------------------------------------
(* Paths *)

\* path.split('/'): the segments between the slashes (at least one segment)
RECURSIVE SplitFrom(_, _, _)
SplitFrom(s, i, seg) ==
    IF i > Len(s) THEN <<seg>>
    ELSE IF s[i] = "/" THEN <<seg>> \o SplitFrom(s, i + 1, <<>>)
    ELSE SplitFrom(s, i + 1, Append(seg, s[i]))

Split(s) == SplitFrom(s, 1, <<>>)

\* parts.join('/')
RECURSIVE Join(_)
Join(parts) ==
    IF parts = <<>> THEN <<>>
    ELSE IF Len(parts) = 1 THEN parts[1]
    ELSE parts[1] \o <<"/">> \o Join(Tail(parts))

\* parts.slice(0, -1)
DropLast(parts) == SubSeq(parts, 1, Len(parts) - 1)

\* s.startsWith(prefix): a comparison of characters
StartsWith(s, prefix) ==
    /\ Len(prefix) =< Len(s)
    /\ \A i \in 1..Len(prefix) : s[i] = prefix[i]

-----------------------------------------------------------------------------
(* The vault: Dataview pages *)

\* p[field]: a frontmatter key the page does not have reads as undefined
PageField(p, field) ==
    IF field \in DOMAIN p.fm THEN p.fm[field] ELSE Undefined

Page(path, subject, type, domain) ==
    [path |-> path,
     fm |-> [subject |-> subject, type |-> type, domain |-> domain]]

\* The files a vault of this model is made of, in the order dv.pages() lists
\* them.  A vault holds at most MaxPages of them, in this order.
Vault ==
    << Page(<<"A", "/", "B", "/", "d">>, Str("PKM"), Str("hub"), Undefined),
       Page(<<"A", "/", "B", "/", "o">>, Str("PKM"), Str("hub"), Str("d1")),
       Page(<<"A", "/", "B", "/", "C", "/", "o">>,
            Arr(<<"PKM", "X">>), Str("hub"), Undefined),
       Page(<<"A", "/", "B", "x", "/", "o">>, Undefined, Str("hub"), Undefined),
       Page(<<"A", "/", "B", "o">>, Str("X"), Str("note"), Arr(<<"d1">>)),
       Page(<<"A", "/", "o">>, Str("PKM"), Str("hub"), Undefined),
       Page(<<"A", "/", "p">>, Undefined, Str("hub"), Str("d1")),
       Page(<<"d">>, Arr(<<"PKM", "X">>), Undefined, Str("d1")),
       Page(<<"o">>, Str("PKM"), Str("note"), Str("d1")) >>

MaxPages == 2

\* the place of a page in the vault's listing order
VaultIndex(p) == CHOOSE i \in 1..Len(Vault) : Vault[i] = p

-----------------------------------------------------------------------------
(* getFilesInSamePath({ dv, currentPath }) *)

\* the directory of a path, a path without a directory segment kept whole
DirPathKeepingFile(currentPath) ==
    IF Len(Split(currentPath)) = 1 THEN currentPath
    ELSE Join(DropLast(Split(currentPath)))

\* pathParts.slice(0, -1).join('/')
DirPath(currentPath) == Join(DropLast(Split(currentPath)))

\* path.split('/').length - 1
Depth(path) == Len(Split(path)) - 1

\* dv.pages().where(p => p.file.path.startsWith(dirPath) && p.file.path !== currentPath)
AllSamePathFiles(pgs, currentPath) ==
    LET dirPath == DirPath(currentPath)
    IN  SelectSeq(pgs, LAMBDA p : /\ StartsWith(p.path, dirPath)
                                  /\ p.path # currentPath)

GetFilesInSamePath(pgs, currentPath) ==
    LET all == AllSamePathFiles(pgs, currentPath)
        currentDepth == Depth(currentPath)
    IN  [exactFolder |-> SelectSeq(all, LAMBDA f : Depth(f.path) = currentDepth),
         subFolders |-> SelectSeq(all, LAMBDA f : Depth(f.path) # currentDepth)]

-----------------------------------------------------------------------------
(* getRelatedConcepts: parameters *)

\* minScore = 0.66, as the percentage minScore * 100 it is compared in
DefaultMinScore == 66
DefaultMaxResults == 10
\* scoreMultiplier = 1.5, in half points
DefaultScoreMultiplier == 3

Criterion(field, value) == [field |-> field, value |-> value]

\* { subject: true, type: true, domain: true }
DefaultMatchCriteria ==
    << Criterion("subject", True), Criterion("type", True),
       Criterion("domain", True) >>

\* The destructured parameter list: a key the caller leaves out takes its
\* default.  matchCriteria is the list of the object's entries in key order.
DefaultParams ==
    [matchCriteria |-> <<>>, includePath |-> True, strictPath |-> FALSE,
     minScore |-> DefaultMinScore, maxResults |-> DefaultMaxResults,
     scoreMultiplier |-> DefaultScoreMultiplier]

Destructure(params) ==
    [k \in DOMAIN DefaultParams |->
        IF k \in DOMAIN params THEN params[k] ELSE DefaultParams[k]]

\* strictPath as the caller gave it
StrictPathAsGiven(o) == o.strictPath

\* if (includePath === "strict") { strictPath = true; includePath = true; }
StrictPath(o) == IF o.includePath = Str("strict") THEN TRUE ELSE o.strictPath

\* path scoring whatever includePath says
PathAlwaysIncluded(o) == TRUE

IncludePath(o) ==
    IF o.includePath = Str("strict") THEN TRUE ELSE Truthy(o.includePath)

\* the defaults also for criteria that are all null or false
MatchCriteriaDefaultingIgnored(o) ==
    IF \A i \in 1..Len(o.matchCriteria) :
          o.matchCriteria[i].value = Null \/ o.matchCriteria[i].value = False
    THEN DefaultMatchCriteria ELSE o.matchCriteria

\* the criteria as given, an empty object left empty
MatchCriteriaAsGiven(o) == o.matchCriteria

\* if (Object.keys(matchCriteria).length === 0) matchCriteria = {subject, type, domain: true}
MatchCriteria(o) ==
    IF Len(o.matchCriteria) = 0 THEN DefaultMatchCriteria ELSE o.matchCriteria

\* criteriaValue === null || criteriaValue === false
Ignored(criteriaValue) == criteriaValue = Null \/ criteriaValue = False

\* null and false resolved like true, from the current page
ResolveIgnoringNothing(mc, cur) ==
    [i \in 1..Len(mc) |->
        Criterion(mc[i].field,
                  IF mc[i].value \in {True, Null, False}
                  THEN PageField(cur, mc[i].field)
                  ELSE mc[i].value)]

\* resolvedCriteria: the entries of matchCriteria that are not ignored, true
\* replaced by the current page's value (undefined when it has none)
RECURSIVE Resolve(_, _)
Resolve(mc, cur) ==
    IF mc = <<>> THEN <<>>
    ELSE LET c == Head(mc)
         IN  IF Ignored(c.value) THEN Resolve(Tail(mc), cur)
             ELSE <<Criterion(c.field,
                              IF c.value = True THEN PageField(cur, c.field)
                              ELSE c.value)>>
                  \o Resolve(Tail(mc), cur)

ResolvedCriteria(o, cur) == Resolve(MatchCriteria(o), cur)

\* obj[field] on resolvedCriteria / searchFilters: undefined when not set
Lookup(entries, field) ==
    IF \E i \in 1..Len(entries) : entries[i].field = field
    THEN entries[CHOOSE i \in 1..Len(entries) : entries[i].field = field].value
    ELSE Undefined

\* searchFilters: the resolved subject and domain criteria
SearchFilters(resolved) ==
    SelectSeq(resolved, LAMBDA c : c.field = "subject" \/ c.field = "domain")

NoSearchFilters == <<>>

-----------------------------------------------------------------------------
(* getRelatedConcepts: scoring *)

\* A Map in insertion order: set() replaces the value of a key in place, or
\* appends the key.
MapHas(m, key) == \E i \in 1..Len(m) : m[i].key = key

MapGet(m, key) == m[CHOOSE i \in 1..Len(m) : m[i].key = key]

\* an entry added whether or not the key is there
MapAppend(m, key, entry) == Append(m, entry)

MapSet(m, key, entry) ==
    IF MapHas(m, key)
    THEN [i \in 1..Len(m) |-> IF m[i].key = key THEN entry ELSE m[i]]
    ELSE Append(m, entry)

Score(key, score) == [key |-> key, score |-> score]

Concept(concept, scores) ==
    [key |-> concept.path, concept |-> concept, scores |-> scores]

\* relatedConcepts.set(conceptId, { concept, scores: new Map([["path", n]]) })
RECURSIVE AddPathScores(_, _, _)
AddPathScores(related, files, points) ==
    IF files = <<>> THEN related
    ELSE AddPathScores(
            MapSet(related, Head(files).path,
                   Concept(Head(files), <<Score("path", points)>>)),
            Tail(files), points)

\* the path points given whatever includePath is
PathScoredAlways(pgs, cur, o) ==
    LET pathFiles == GetFilesInSamePath(pgs, cur.path)
    IN  AddPathScores(AddPathScores(<<>>, pathFiles.exactFolder, Pts(2)),
                      pathFiles.subFolders, Pts(1))

\* if (includePath) { exactFolder: 2 points; subFolders: 1 point }
PathScored(pgs, cur, o) ==
    IF IncludePath(o)
    THEN LET pathFiles == GetFilesInSamePath(pgs, cur.path)
         IN  AddPathScores(AddPathScores(<<>>, pathFiles.exactFolder, Pts(2)),
                           pathFiles.subFolders, Pts(1))
    ELSE <<>>

\* if (searchFilters.f) { if (![].concat(searchFilters.f).includes(p.f)) return false; }
PassesSearchFilter(p, searchFilters, f) ==
    Truthy(Lookup(searchFilters, f))
        => Includes(AsArray(Lookup(searchFilters, f)), PageField(p, f))

\* the subject and domain filters of the candidate search
PassesSearchFilters(p, searchFilters) ==
    /\ PassesSearchFilter(p, searchFilters, "subject")
    /\ PassesSearchFilter(p, searchFilters, "domain")

\* targetValues.some(tv => pageValues.includes(tv)), for a truthy page value
FieldMatches(p, field, targetValues) ==
    /\ Truthy(PageField(p, field))
    /\ \E i \in 1..Len(targetValues) :
          Includes(AsArray(PageField(p, field)), targetValues[i])

\* dv.pages().where(...): the pages that match one criterion
MatchingConcepts(pgs, field, targetValues, searchFilters) ==
    SelectSeq(pgs, LAMBDA p : /\ PassesSearchFilters(p, searchFilters)
                              /\ FieldMatches(p, field, targetValues))

\* matchingValues.length * scoreMultiplier
FieldScore(concept, field, targetValues, scoreMultiplier) ==
    CountIncluded(targetValues, AsArray(PageField(concept, field)))
        * scoreMultiplier

\* matchingConcepts.forEach: create the entry when missing, set the field score
RECURSIVE AddFieldScores(_, _, _, _, _)
AddFieldScores(related, matching, field, targetValues, scoreMultiplier) ==
    IF matching = <<>> THEN related
    ELSE LET concept == Head(matching)
             had == IF MapHas(related, concept.path)
                    THEN MapGet(related, concept.path)
                    ELSE Concept(concept, <<Score("path", 0)>>)
             entry == [had EXCEPT !.scores =
                          MapSet(had.scores, field,
                                 Score(field, FieldScore(concept, field,
                                           targetValues, scoreMultiplier)))]
         IN  AddFieldScores(MapSet(related, concept.path, entry),
                            Tail(matching), field, targetValues, scoreMultiplier)

\* Object.keys(resolvedCriteria).forEach: a falsy target value is skipped
RECURSIVE FieldScored(_, _, _, _, _)
FieldScored(related, pgs, resolved, searchFilters, scoreMultiplier) ==
    IF resolved = <<>> THEN related
    ELSE LET c == Head(resolved)
             targetValues == AsArray(c.value)
             next ==
                IF ~Truthy(c.value) THEN related
                ELSE AddFieldScores(
                        related,
                        MatchingConcepts(pgs, c.field, targetValues, searchFilters),
                        c.field, targetValues, scoreMultiplier)
         IN  FieldScored(next, pgs, Tail(resolved), searchFilters, scoreMultiplier)

\* The relatedConcepts map once path and field scores are in, for the given
\* search filters.
ScoredWith(pgs, cur, o, searchFilters) ==
    FieldScored(PathScored(pgs, cur, o), pgs, ResolvedCriteria(o, cur),
                searchFilters, o.scoreMultiplier)

RelatedConcepts(pgs, cur, o) ==
    ScoredWith(pgs, cur, o, SearchFilters(ResolvedCriteria(o, cur)))

-----------------------------------------------------------------------------
(* getRelatedConcepts: confidence, filtering and ranking *)

\* scores.get("path") || 0
PathScore(scores) ==
    IF MapHas(scores, "path") THEN MapGet(scores, "path").score ELSE 0

\* the sum of the scores whose key is not "path"
RECURSIVE FrontmatterScores(_)
FrontmatterScores(scores) ==
    IF scores = <<>> THEN 0
    ELSE (IF Head(scores).key # "path" THEN Head(scores).score ELSE 0)
         + FrontmatterScores(Tail(scores))

TotalScore(scores) == PathScore(scores) + FrontmatterScores(scores)

\* the sum over all resolved criteria, an absent target counted as one value
RECURSIVE CriteriaMaxCountingAbsent(_, _)
CriteriaMaxCountingAbsent(resolved, scoreMultiplier) ==
    IF resolved = <<>> THEN 0
    ELSE Len(AsArray(Head(resolved).value)) * scoreMultiplier
         + CriteriaMaxCountingAbsent(Tail(resolved), scoreMultiplier)

\* the sum over the truthy resolved criteria of targetValues.length * scoreMultiplier
RECURSIVE CriteriaMax(_, _)
CriteriaMax(resolved, scoreMultiplier) ==
    IF resolved = <<>> THEN 0
    ELSE (IF Truthy(Head(resolved).value)
          THEN Len(AsArray(Head(resolved).value)) * scoreMultiplier
          ELSE 0)
         + CriteriaMax(Tail(resolved), scoreMultiplier)

\* let maxPossibleScore = strictPath ? 0 : 2, plus the criteria
MaxPathScore(o) == IF StrictPath(o) THEN 0 ELSE Pts(2)

MaxPossibleScore(o, cur) ==
    MaxPathScore(o) + CriteriaMax(ResolvedCriteria(o, cur), o.scoreMultiplier)

\* (totalScore / maxPossibleScore) * 100, whatever maxPossibleScore is
ConfidenceUnguarded(totalScore, maxPossibleScore) ==
    [num |-> totalScore * 100, den |-> maxPossibleScore]

\* maxPossibleScore > 0 ? (totalScore / maxPossibleScore) * 100 : 0
Confidence(totalScore, maxPossibleScore) ==
    IF maxPossibleScore > 0
    THEN [num |-> totalScore * 100, den |-> maxPossibleScore]
    ELSE [num |-> 0, den |-> 1]

\* comparisons of confidences (the denominators are positive)
ConfLess(a, b) == a.num * b.den < b.num * a.den
ConfAbove(a, percent) == a.num > percent * a.den
ConfBelow(a, percent) == a.num < percent * a.den
ConfAtLeast(a, percent) == a.num >= percent * a.den
ConfAtMost(a, percent) == a.num =< percent * a.den
ConfIs(a, percent) == a.num = percent * a.den

\* Array.from(relatedConcepts.values()).map(...).  A result is { concept,
\* confidence, inSamePath }; scores, totalScore and maxPossibleScore record
\* the Map entry and the locals its confidence was computed from.
Results(related, o, cur) ==
    LET maxPossibleScore == MaxPossibleScore(o, cur)
    IN  [i \in 1..Len(related) |->
            LET totalScore == TotalScore(related[i].scores)
            IN  [concept |-> related[i].concept,
                 confidence |-> Confidence(totalScore, maxPossibleScore),
                 inSamePath |-> PathScore(related[i].scores) > 0,
                 scores |-> related[i].scores,
                 totalScore |-> totalScore,
                 maxPossibleScore |-> maxPossibleScore]]

\* .sort((a, b) => b.confidence - a.confidence): stable, highest first
RECURSIVE InsertByConfidence(_, _)
InsertByConfidence(sorted, r) ==
    IF sorted = <<>> THEN <<r>>
    ELSE IF ConfLess(Head(sorted).confidence, r.confidence)
         THEN <<r>> \o sorted
         ELSE <<Head(sorted)>> \o InsertByConfidence(Tail(sorted), r)

\* the results left in the order they were scored in
Unsorted(rs) == rs

RECURSIVE SortByConfidence(_)
SortByConfidence(rs) ==
    IF rs = <<>> THEN <<>>
    ELSE InsertByConfidence(SortByConfidence(DropLast(rs)), rs[Len(rs)])

\* the list left whole
Unsliced(rs, end) == rs

\* .slice(0, end): a negative end counts from the end of the array
Slice(rs, end) ==
    LET e == IF end < 0 THEN (IF Len(rs) + end < 0 THEN 0 ELSE Len(rs) + end)
             ELSE (IF end > Len(rs) THEN Len(rs) ELSE end)
    IN  SubSeq(rs, 1, e)

\* the ranking without its strictPath filter
FilteredKeepingOtherPaths(rs, o) ==
    Slice(
        SelectSeq(SortByConfidence(rs),
                  LAMBDA r : ConfAtLeast(r.confidence, o.minScore)),
        o.maxResults)

\* results.filter(strictPath).sort(confidence).filter(minScore).slice(0, maxResults)
Filtered(rs, o) ==
    Slice(
        SelectSeq(
            SortByConfidence(
                SelectSeq(rs, LAMBDA r : ~StrictPath(o) \/ r.inSamePath)),
            LAMBDA r : ConfAtLeast(r.confidence, o.minScore)),
        o.maxResults)

\* what getRelatedConcepts(params) returns on the page cur of the vault pgs
GetRelatedConcepts(pgs, cur, params) ==
    LET o == Destructure(params)
    IN  Filtered(Results(RelatedConcepts(pgs, cur, o), o, cur), o)

-----------------------------------------------------------------------------
(* The calls a page makes *)

IncludePathValues == {True, False, Str("strict")}

\* what a matchCriteria object may say about a field; Undefined: no such key
SubjectCriteria == {Undefined, True, Null, Str("PKM"), Arr(<<"PKM", "X">>)}
TypeCriteria == {Undefined, True, False}
DomainCriteria == {Undefined, True, Null}

\* the object { subject: s, type: t, domain: d } without its undefined keys
CriteriaObject(s, t, d) ==
    SelectSeq(<< Criterion("subject", s), Criterion("type", t),
                 Criterion("domain", d) >>,
              LAMBDA c : c.value # Undefined)

\* minScore (as a percentage), maxResults and scoreMultiplier (in half
\* points) of the calls
Thresholds ==
    { [minScore |-> DefaultMinScore, maxResults |-> DefaultMaxResults,
       scoreMultiplier |-> DefaultScoreMultiplier],
      [minScore |-> 0, maxResults |-> DefaultMaxResults,
       scoreMultiplier |-> DefaultScoreMultiplier],
      [minScore |-> 50, maxResults |-> 1,
       scoreMultiplier |-> DefaultScoreMultiplier],
      [minScore |-> 0, maxResults |-> 2, scoreMultiplier |-> Pts(1)] }

\* calls with a maxResults or a scoreMultiplier that is not positive
NonPositiveThresholds ==
    { [minScore |-> 0, maxResults |-> -1,
       scoreMultiplier |-> DefaultScoreMultiplier],
      [minScore |-> 0, maxResults |-> DefaultMaxResults,
       scoreMultiplier |-> 0] }

Params(mc, ip, sp, th) ==
    [matchCriteria |-> mc, includePath |-> ip, strictPath |-> sp,
     minScore |-> th.minScore, maxResults |-> th.maxResults,
     scoreMultiplier |-> th.scoreMultiplier]

-----------------------------------------------------------------------------
(* ConceptWrappers (scripts/ConceptWrappers.js) *)

DEFAULT_MAX_RESULTS == 5
DEFAULT_HEADER_LEVEL == 3

\* An object is a function from its keys; <<>> is the object without keys.
\* { ...b, ...a }: the first object's value where both have the key
SpreadKeepingFirst(a, b) ==
    [k \in DOMAIN a \cup DOMAIN b |-> IF k \in DOMAIN a THEN a[k] ELSE b[k]]

\* { ...a, ...b }: the keys of both, b's value where both have the key
Spread(a, b) ==
    [k \in DOMAIN a \cup DOMAIN b |-> IF k \in DOMAIN b THEN b[k] ELSE a[k]]

\* options.conceptOptions, the empty object when there is none (the default
\* of the destructuring; spreading undefined adds no key)
ConceptOptionsOf(opts) ==
    IF "conceptOptions" \in DOMAIN opts THEN opts.conceptOptions
    ELSE <<>>

\* the dv object of the block that renders, and another one
Dv == "dv"
OtherDv == "other"

\* renderSimilarPages: defaultConceptOptions
DefaultConceptOptions(dv) ==
    [dv |-> dv,
     matchCriteria |-> << Criterion("type", True), Criterion("subject", True) >>,
     maxResults |-> DEFAULT_MAX_RESULTS,
     debug |-> False]

\* renderSimilarPages: { ...defaultConceptOptions, ...conceptOptions, dv }
SimilarPagesFinalOptions(dv, conceptOptions) ==
    Spread(Spread(DefaultConceptOptions(dv), conceptOptions), [dv |-> dv])

\* defaultOptions of the two footers, which differ in matchCriteria
FooterDefaultOptions(matchCriteria) ==
    [headerText |-> "Related Content",
     headerLevel |-> DEFAULT_HEADER_LEVEL,
     conceptOptions |-> [matchCriteria |-> matchCriteria,
                         maxResults |-> 10,
                         minScore |-> 60]]

ConceptFooterDefaultOptions ==
    FooterDefaultOptions(<< Criterion("type", True), Criterion("subject", True) >>)

HubFooterDefaultOptions ==
    FooterDefaultOptions(<< Criterion("type", True), Criterion("subject", True),
                            Criterion("domain", True) >>)

\* { ...defaultOptions, ...options,
\*   conceptOptions: { ...defaultOptions.conceptOptions, ...options.conceptOptions } }
FooterFinalOptions(defaultOptions, opts) ==
    Spread(Spread(defaultOptions, opts),
           [conceptOptions |-> Spread(defaultOptions.conceptOptions,
                                      ConceptOptionsOf(opts))])

\* r.confidence.toFixed(2): the percentage in hundredths, rounded to nearest
ToFixed2(confidence) ==
    (200 * confidence.num + confidence.den) \div (2 * confidence.den)

\* what dv.header, dv.paragraph and dv.table put on the page
Header(level, text) == [el |-> "header", level |-> level, text |-> text]
Paragraph(text) == [el |-> "paragraph", text |-> text]
Table(rows) == [el |-> "table", rows |-> rows]

\* the rows of the table: link, confidence and match
Row(r) ==
    [page |-> r.concept.path,
     confidence |-> ToFixed2(r.confidence),
     match |-> IF r.inSamePath THEN "Same path" ELSE "Cross-reference"]

\* renderSimilarPages after the call: the header unless headerLevel is 0,
\* then the table, or a paragraph when nothing is related
SimilarPagesOutput(opts, related) ==
    LET headerText == IF "headerText" \in DOMAIN opts
                      THEN opts.headerText ELSE "Similar Pages"
        headerLevel == IF "headerLevel" \in DOMAIN opts
                       THEN opts.headerLevel ELSE DEFAULT_HEADER_LEVEL
    IN  (IF headerLevel > 0 THEN <<Header(headerLevel, headerText)>> ELSE <<>>)
        \o (IF Len(related) = 0
            THEN <<Paragraph("*No similar pages found.*")>>
            ELSE <<Table([i \in 1..Len(related) |-> Row(related[i])])>>)

\* the options objects the blocks of the model hand to a wrapper
WrapperOptions ==
    << <<>>,
       [conceptOptions |-> [maxResults |-> 1]],
       [conceptOptions |-> [matchCriteria |-> <<Criterion("domain", True)>>,
                            minScore |-> 0, dv |-> OtherDv]],
       [headerLevel |-> 0,
        conceptOptions |-> [includePath |-> False, minScore |-> 0]],
       [headerText |-> "See also",
        conceptOptions |-> [includePath |-> Str("strict"), maxResults |-> 2]] >>

-----------------------------------------------------------------------------
(* The state machine *)

\* no wrapper is running (the call, if any, is the block's own)
NoWrapper == [name |-> "none"]

NoCall ==
    /\ called' = FALSE
    /\ calls' = 0
    /\ options' = DefaultParams
    /\ results' = <<>>
    /\ filtered' = <<>>
    /\ wrapper' = NoWrapper
    /\ output' = <<>>
    /\ argument' = <<>>

\* constructor(): both caches are new Maps
Init ==
    /\ pages = <<>>
    /\ current = 0
    /\ called = FALSE
    /\ calls = 0
    /\ options = DefaultParams
    /\ results = <<>>
    /\ filtered = <<>>
    /\ conceptCache = <<>>
    /\ relationsCache = <<>>
    /\ wrapper = NoWrapper
    /\ output = <<>>
    /\ argument = <<>>

\* the vault gains a file (the host application's doing)
CreatePage(i) ==
    /\ ~called
    /\ Len(pages) < MaxPages
    /\ pages # <<>> => i > VaultIndex(pages[Len(pages)])
    /\ pages' = Append(pages, Vault[i])
    /\ UNCHANGED <<current, conceptCache, relationsCache>>
    /\ NoCall

\* the user opens a page: dv.current() is that page from now on
OpenPage(k) ==
    /\ ~called
    /\ k # current
    /\ current' = k
    /\ UNCHANGED <<pages, conceptCache, relationsCache>>
    /\ NoCall

\* a call that records the relations it found in relationsCache
RelationsCached ==
    /\ relationsCache' = Append(relationsCache, pages[current].path)
    /\ UNCHANGED conceptCache

\* no statement of getRelatedConcepts (or of the methods it calls) names
\* this.conceptCache or this.relationsCache
CachesUntouched == UNCHANGED <<conceptCache, relationsCache>>

\* the caller's object with the default criteria written into it
ArgumentDefaulted(params) ==
    [k \in DOMAIN params |->
        IF k = "matchCriteria" /\ params[k] = <<>> THEN DefaultMatchCriteria
        ELSE params[k]]

\* the caller's object once the call is over: matchCriteria = { ... } rebinds
\* the local, and resolvedCriteria and searchFilters are objects of the call
ArgumentAfter(params) == params

\* getRelatedConcepts(params) runs on the current page and returns
Returns(params) ==
    /\ current # 0
    /\ argument' = ArgumentAfter(params)
    /\ LET o == Destructure(params)
           cur == pages[current]
           related == RelatedConcepts(pages, cur, o)
           rs == Results(related, o, cur)
       IN  /\ called' = TRUE
           /\ options' = o
           /\ results' = rs
           /\ filtered' = Filtered(rs, o)
    /\ CachesUntouched
    /\ UNCHANGED <<pages, current>>

\* a dataviewjs block of the current page calls getRelatedConcepts(params)
CallGetRelatedConcepts(params) ==
    /\ ~called
    /\ Returns(params)
    /\ calls' = 1

\* the block has rendered: the value returned is dropped
Rendered ==
    /\ called
    /\ UNCHANGED <<pages, current, conceptCache, relationsCache>>
    /\ NoCall

\* the calls of the model: every criteria object, path mode and threshold
Call ==
    /\ ~called
    /\ \/ \E s \in SubjectCriteria, t \in TypeCriteria, d \in DomainCriteria,
             ip \in IncludePathValues, sp \in BOOLEAN, th \in Thresholds :
             CallGetRelatedConcepts(Params(CriteriaObject(s, t, d), ip, sp, th))
       \/ \E ip \in IncludePathValues, th \in NonPositiveThresholds :
             CallGetRelatedConcepts(Params(<<>>, ip, FALSE, th))
    /\ wrapper' = NoWrapper
    /\ output' = <<>>

\* renderSimilarPages(dv, options), entered by the wrapper `name` that was
\* handed `given` and has put `before` on the page: the call, then the output
SimilarPages(name, dv, given, opts, before) ==
    LET finalOptions == SimilarPagesFinalOptions(dv, ConceptOptionsOf(opts))
    IN  /\ CallGetRelatedConcepts(finalOptions)
        /\ wrapper' = [name |-> name, dv |-> dv, options |-> given,
                       finalOptions |-> finalOptions]
        /\ output' = before \o SimilarPagesOutput(opts, filtered')

RenderSimilarPages(dv, opts) ==
    SimilarPages("renderSimilarPages", dv, opts, opts, <<>>)

\* dv.paragraph("---"); this.renderSimilarPages(dv, finalOptions)
RenderConceptFooter(dv, opts) ==
    SimilarPages("renderConceptFooter", dv, opts,
                 FooterFinalOptions(ConceptFooterDefaultOptions, opts),
                 <<Paragraph("---")>>)

RenderHubFooter(dv, opts) ==
    SimilarPages("renderHubFooter", dv, opts,
                 FooterFinalOptions(HubFooterDefaultOptions, opts),
                 <<Paragraph("---")>>)

\* a dataviewjs block of the current page calls a wrapper
Render ==
    /\ ~called
    /\ \E i \in 1..Len(WrapperOptions) :
          \/ RenderSimilarPages(Dv, WrapperOptions[i])
          \/ RenderConceptFooter(Dv, WrapperOptions[i])
          \/ RenderHubFooter(Dv, WrapperOptions[i])

Next ==
    \/ Rendered
    \/ \E i \in 1..Len(Vault) : CreatePage(i)
    \/ \E k \in 1..Len(pages) : OpenPage(k)
    \/ Call
    \/ Render

Spec == Init /\ [][Next]_vars

\* The block is rendered a second time: the same call, on the same page of
\* the same vault, on the same ConceptManager instance.
Refresh ==
    /\ called
    /\ calls = 1
    /\ Returns(options)
    /\ calls' = 2
    /\ UNCHANGED <<wrapper, output>>

\* the calls of every criteria object and path mode that keep every candidate
CallKeepingAll ==
    /\ ~called
    /\ \E s \in SubjectCriteria, t \in TypeCriteria, d \in DomainCriteria,
          ip \in IncludePathValues, sp \in BOOLEAN :
          CallGetRelatedConcepts(
              Params(CriteriaObject(s, t, d), ip, sp,
                     [minScore |-> 0, maxResults |-> DefaultMaxResults,
                      scoreMultiplier |-> DefaultScoreMultiplier]))
    /\ wrapper' = NoWrapper
    /\ output' = <<>>

NextRefresh ==
    \/ Rendered
    \/ \E i \in 1..Len(Vault) : CreatePage(i)
    \/ \E k \in 1..Len(pages) : OpenPage(k)
    \/ CallKeepingAll
    \/ Refresh

\* the system with blocks that are rendered twice
SpecRefresh == Init /\ [][NextRefresh]_vars

-----------------------------------------------------------------------------
(* Properties of a call, stated on the state it leaves.  Reference,       *)
(* PathScoreOf, Directory, IsPrefix, HoldsEveryTarget and SomeTarget are    *)
(* the vocabulary of the properties.                                        *)

\* const current = dv.current(): the page the call was made on
Reference == pages[current]

\* the path score the call gave a page: that of its Map entry, 0 without one
PathScoreOf(p) ==
    IF \E i \in 1..Len(results) : results[i].concept.path = p.path
    THEN PathScore(results[CHOOSE i \in 1..Len(results) :
                               results[i].concept.path = p.path].scores)
    ELSE 0

\* path minus its last segment, as segments
Directory(path) == DropLast(Split(path))

IsPrefix(a, b) == Len(a) =< Len(b) /\ SubSeq(b, 1, Len(a)) = a

\* C1: when scoreMultiplier > 0 and maxResults > 0, every result returned has
\* a confidence of at least 0 and at most 100.
C1_ConfidenceInRange ==
    (called /\ options.scoreMultiplier > 0 /\ options.maxResults > 0)
        => \A i \in 1..Len(filtered) :
              /\ ConfAtLeast(filtered[i].confidence, 0)
              /\ ConfAtMost(filtered[i].confidence, 100)

\* C2: the reference document is never in the list returned.
C2_ReferenceExcluded ==
    called => \A i \in 1..Len(filtered) :
                 filtered[i].concept.path # Reference.path

\* C3: maxPossibleScore is 2 points when includePath is true or "strict" and
\* 0 when it is false, plus |T_f| * scoreMultiplier for every resolved
\* criterion field, whatever strictPath is.
C3_MaxPossibleScore ==
    called => \A i \in 1..Len(results) :
                 results[i].maxPossibleScore =
                    (IF options.includePath = False THEN 0 ELSE Pts(2))
                    + CriteriaMax(ResolvedCriteria(options, Reference),
                                  options.scoreMultiplier)

\* a page holds every target value of every resolved criterion that has one
HoldsEveryTarget(p, resolved) ==
    \A k \in 1..Len(resolved) :
        Truthy(resolved[k].value)
            => \A j \in 1..Len(AsArray(resolved[k].value)) :
                  Includes(AsArray(PageField(p, resolved[k].field)),
                           AsArray(resolved[k].value)[j])

SomeTarget(resolved) ==
    \E k \in 1..Len(resolved) : Truthy(resolved[k].value)

\* C4: with includePath = false, a candidate (a scored page other than the
\* reference) that holds every target value of every resolved criterion field
\* has confidence exactly 100.
C4_FullMatchIsHundred ==
    (called /\ options.includePath = False
        /\ SomeTarget(ResolvedCriteria(options, Reference)))
        => \A i \in 1..Len(results) :
              (/\ results[i].concept.path # Reference.path
               /\ HoldsEveryTarget(results[i].concept,
                                   ResolvedCriteria(options, Reference)))
                 => ConfIs(results[i].confidence, 100)

\* C5: the list returned is the list computed with no subject/domain
\* pre-filter in the candidate searches.
C5_PreFilterChangesNothing ==
    called => filtered =
                Filtered(Results(ScoredWith(pages, Reference, options,
                                            NoSearchFilters),
                                 options, Reference),
                         options)

\* C6: a candidate (a page other than the reference) that the subject (resp.
\* domain) pre-filter rejects does not match the subject (resp. domain)
\* criterion either: its value, as a list, shares no element with the target
\* list.
C6_PreFilterRejectsOnlyNonMatches ==
    called =>
        LET resolved == ResolvedCriteria(options, Reference)
            filters == SearchFilters(resolved)
        IN  \A f \in {"subject", "domain"} : \A k \in 1..Len(pages) :
                (k # current /\ ~PassesSearchFilter(pages[k], filters, f))
                    => ~\E j \in 1..Len(AsArray(Lookup(resolved, f))) :
                          Includes(AsArray(PageField(pages[k], f)),
                                   AsArray(Lookup(resolved, f))[j])

\* C7: with path scoring on, a page has path score 2 exactly when its
\* directory equals the reference's directory segment for segment and it is
\* not the reference.
C7_ExactFolderScore ==
    (called /\ IncludePath(options)) =>
        \A k \in 1..Len(pages) :
            (PathScoreOf(pages[k]) = Pts(2))
                <=> (/\ Directory(pages[k].path) = Directory(Reference.path)
                     /\ pages[k].path # Reference.path)

\* C8: with path scoring on, a page has path score 1 exactly when it lies
\* under the reference's directory at a strictly greater depth and is not the
\* reference.
C8_SubfolderScore ==
    (called /\ IncludePath(options)) =>
        \A k \in 1..Len(pages) :
            (PathScoreOf(pages[k]) = Pts(1))
                <=> (/\ IsPrefix(Directory(Reference.path),
                                 Directory(pages[k].path))
                     /\ Depth(pages[k].path) > Depth(Reference.path)
                     /\ pages[k].path # Reference.path)

\* C9: when strictPath is true, set directly or by includePath = "strict",
\* every result returned has inSamePath = true and a path score above 0.
C9_StrictPathResultsInSamePath ==
    (called /\ (options.strictPath \/ options.includePath = Str("strict"))) =>
        \A i \in 1..Len(filtered) :
            /\ filtered[i].inSamePath
            /\ PathScore(filtered[i].scores) > 0

\* a strict call that returned a result and dropped a scored candidate that
\* is not in the same path
C9_Witness ==
    /\ called
    /\ (options.strictPath \/ options.includePath = Str("strict"))
    /\ filtered # <<>>
    /\ \E i \in 1..Len(results) : ~results[i].inSamePath

\* C10: with includePath = "strict", every result returned is a file of
\* exactly the folder of the current page.
C10_StrictReturnsSameFolderOnly ==
    (called /\ options.includePath = Str("strict")) =>
        \A i \in 1..Len(filtered) :
            Directory(filtered[i].concept.path) = Directory(Reference.path)

\* a confidence is at least another one (as fractions)
AsConfident(r, s) ==
    r.confidence.num * s.confidence.den >= s.confidence.num * r.confidence.den

\* C11: the list returned is sorted by confidence, highest first: no result
\* has a lower confidence than the result after it.
C11_SortedByConfidence ==
    called => \A i \in 1..(Len(filtered) - 1) :
                 AsConfident(filtered[i], filtered[i + 1])

\* a call that returned two results of different confidence which were
\* scored in the opposite order
C11_Witness ==
    /\ called
    /\ Len(filtered) = 2
    /\ ~AsConfident(filtered[2], filtered[1])
    /\ Len(results) = 2
    /\ ~AsConfident(results[1], results[2])

\* the candidates that pass the strictPath and minScore filters
Qualifying ==
    SelectSeq(results,
              LAMBDA r : /\ (options.strictPath
                                \/ options.includePath = Str("strict"))
                            => r.inSamePath
                         /\ r.confidence.num
                                >= options.minScore * r.confidence.den)

\* C12: for a positive maxResults, at most maxResults results are returned.
C12_AtMostMaxResults ==
    (called /\ options.maxResults > 0) => Len(filtered) =< options.maxResults

\* a call whose maxResults cut the list: more candidates qualify than are
\* returned
C12_Witness ==
    /\ called
    /\ options.maxResults > 0
    /\ Len(filtered) = options.maxResults
    /\ Len(Qualifying) > options.maxResults

\* C13: every result returned has a confidence of at least minScore * 100,
\* and the comparison is inclusive: a candidate whose confidence is exactly
\* minScore * 100 is kept (when it passes strictPath and maxResults does not
\* cut the list).
C13_AtLeastMinScore ==
    called =>
        /\ \A i \in 1..Len(filtered) :
              filtered[i].confidence.num
                  >= options.minScore * filtered[i].confidence.den
        /\ Len(Qualifying) =< options.maxResults
              => \A i \in 1..Len(Qualifying) :
                    \E j \in 1..Len(filtered) : filtered[j] = Qualifying[i]

\* a call that returned a candidate whose confidence is exactly the
\* (positive) threshold
C13_Witness ==
    /\ called
    /\ options.minScore > 0
    /\ \E i \in 1..Len(filtered) :
          filtered[i].confidence.num
              = options.minScore * filtered[i].confidence.den

\* The criteria a call asks for, read from its options: an empty
\* matchCriteria asks for the current page's subject, type and domain.
FieldNames == {"subject", "type", "domain"}

AllUseCurrent ==
    << Criterion("subject", True), Criterion("type", True),
       Criterion("domain", True) >>

AskedCriteria ==
    IF options.matchCriteria = <<>> THEN AllUseCurrent
    ELSE options.matchCriteria

Asked(f) ==
    IF \E i \in 1..Len(AskedCriteria) : AskedCriteria[i].field = f
    THEN AskedCriteria[CHOOSE i \in 1..Len(AskedCriteria) :
                          AskedCriteria[i].field = f].value
    ELSE Undefined

\* the field is asked to be ignored
AskedIgnored(f) == Asked(f) = Null \/ Asked(f) = False

\* the field is asked as true but the reference document has no value for it
AskedAbsent(f) == Asked(f) = True /\ ~Truthy(PageField(Reference, f))

\* no field yields a value to match on
NoTargets ==
    \A f \in FieldNames : Asked(f) = Undefined \/ AskedIgnored(f) \/ AskedAbsent(f)

\* the options of the call with other criteria
WithCriteria(mc) == [options EXCEPT !.matchCriteria = mc]

C15_EmptyCriteriaAreDefaults ==
    (called /\ options.matchCriteria = <<>>)
        => filtered = GetRelatedConcepts(pages, Reference,
                                         WithCriteria(AllUseCurrent))

\* a call with an empty matchCriteria that returned a candidate scored on a
\* frontmatter field
C15_Witness ==
    /\ called
    /\ options.matchCriteria = <<>>
    /\ \E i \in 1..Len(filtered) :
          /\ filtered[i].concept.path # Reference.path
          /\ \E j \in 1..Len(filtered[i].scores) :
                /\ filtered[i].scores[j].key \in FieldNames
                /\ filtered[i].scores[j].score > 0

\* the criteria of the call without the ignored ones
KeptCriteria ==
    SelectSeq(options.matchCriteria,
              LAMBDA c : c.value # Null /\ c.value # False)

\* C16: a field whose criterion is null or false is ignored completely: no
\* candidate has a score for it, and the list returned (confidences and
\* maxPossibleScore included) is the one returned without that entry; when
\* every entry is ignored only path points are scored and counted.
C16_IgnoredFieldHasNoEffect ==
    (called /\ \E f \in FieldNames : AskedIgnored(f)) =>
        /\ \A i \in 1..Len(results) : \A j \in 1..Len(results[i].scores) :
              ~AskedIgnored(results[i].scores[j].key)
        /\ KeptCriteria # <<>>
              => filtered = GetRelatedConcepts(pages, Reference,
                                               WithCriteria(KeptCriteria))
        /\ KeptCriteria = <<>>
              => \A i \in 1..Len(results) :
                    /\ results[i].maxPossibleScore =< Pts(2)
                    /\ \A j \in 1..Len(results[i].scores) :
                          results[i].scores[j].key = "path"

\* a call that ignores a field the reference has, and returned another page
\* that holds the reference's value for it
C16_Witness ==
    /\ called
    /\ \E f \in FieldNames :
          /\ AskedIgnored(f)
          /\ Truthy(PageField(Reference, f))
          /\ \E i \in 1..Len(filtered) :
                /\ filtered[i].concept.path # Reference.path
                /\ PageField(filtered[i].concept, f) = PageField(Reference, f)

\* the criteria of the call with the field f ignored
IgnoringField(f) ==
    [i \in 1..Len(AskedCriteria) |->
        IF AskedCriteria[i].field = f THEN Criterion(f, Null)
        ELSE AskedCriteria[i]]

\* C17: a field asked as true that the reference document lacks gives no
\* candidate a score, adds nothing to maxPossibleScore and filters nothing
\* out: the list returned is the one returned with that field ignored.
C17_AbsentFieldIsIgnored ==
    called => \A f \in FieldNames :
        AskedAbsent(f) =>
            /\ \A i \in 1..Len(results) : \A j \in 1..Len(results[i].scores) :
                  results[i].scores[j].key # f
            /\ filtered = GetRelatedConcepts(pages, Reference,
                                             WithCriteria(IgnoringField(f)))

\* a call that asks for a field the reference lacks and returned another page
\* that has a value for it
C17_Witness ==
    /\ called
    /\ \E f \in FieldNames :
          /\ AskedAbsent(f)
          /\ \E i \in 1..Len(filtered) :
                /\ filtered[i].concept.path # Reference.path
                /\ Truthy(PageField(filtered[i].concept, f))

\* C19: a scoreMultiplier or maxResults that is not positive is rejected or
\* clamped before scoring: no call ranks with such a value and returns a list
\* derived from it.
C19_NonPositiveConfigurationNotUsed ==
    called => (options.scoreMultiplier > 0 /\ options.maxResults > 0)

WrapperDefaults ==
    [renderSimilarPages |->
        [matchCriteria |-> << [field |-> "type", value |-> True],
                              [field |-> "subject", value |-> True] >>,
         maxResults |-> 5, debug |-> False],
     renderConceptFooter |->
        [matchCriteria |-> << [field |-> "type", value |-> True],
                              [field |-> "subject", value |-> True] >>,
         maxResults |-> 10, minScore |-> 60, debug |-> False],
     renderHubFooter |->
        [matchCriteria |-> << [field |-> "type", value |-> True],
                              [field |-> "subject", value |-> True],
                              [field |-> "domain", value |-> True] >>,
         maxResults |-> 10, minScore |-> 60, debug |-> False]]

\* the conceptOptions the caller handed to the wrapper that is running
GivenConceptOptions ==
    IF "conceptOptions" \in DOMAIN wrapper.options
    THEN wrapper.options.conceptOptions ELSE <<>>

\* C20: the wrappers pass options through: every key of the caller's
\* conceptOptions (but dv) reaches getRelatedConcepts with the caller's
\* value, every key the caller omits has the wrapper's default, the dv passed
\* on is the dv handed to the wrapper, and getRelatedConcepts works with the
\* values it was passed.
C20_WrappersPassOptionsThrough ==
    (called /\ wrapper.name # "none") =>
        LET given == GivenConceptOptions
            passed == wrapper.finalOptions
            defaults == WrapperDefaults[wrapper.name]
        IN  /\ \A k \in DOMAIN given \ {"dv"} :
                  k \in DOMAIN passed /\ passed[k] = given[k]
            /\ \A k \in DOMAIN defaults \ DOMAIN given :
                  k \in DOMAIN passed /\ passed[k] = defaults[k]
            /\ passed.dv = wrapper.dv
            /\ DOMAIN passed = DOMAIN given \cup DOMAIN defaults \cup {"dv"}
            /\ \A k \in DOMAIN options \cap DOMAIN passed :
                  options[k] = passed[k]

\* a footer called with its own matchCriteria and minScore and with another
\* dv among the conceptOptions, that listed a page
C20_Witness ==
    /\ called
    /\ wrapper.name = "renderConceptFooter"
    /\ "dv" \in DOMAIN GivenConceptOptions
    /\ GivenConceptOptions.dv # wrapper.dv
    /\ "matchCriteria" \in DOMAIN GivenConceptOptions
    /\ options.matchCriteria = GivenConceptOptions.matchCriteria
    /\ options.maxResults = 10
    /\ Len(filtered) > 0

\* the target list T_f of a field: the values the call matches the field on
Targets(f) ==
    IF Asked(f) = True
    THEN IF Truthy(PageField(Reference, f))
         THEN AsArray(PageField(Reference, f)) ELSE <<>>
    ELSE IF Asked(f) = Undefined \/ AskedIgnored(f) THEN <<>>
    ELSE AsArray(Asked(f))

\* the value list of a page for a field, empty when the page lacks the field
Values(p, f) ==
    IF Truthy(PageField(p, f)) THEN AsArray(PageField(p, f)) ELSE <<>>

\* matchCount_f: the elements of T_f that occur in the page's value list
MatchCount(p, f) ==
    Cardinality({j \in 1..Len(Targets(f)) :
                    \E k \in 1..Len(Values(p, f)) :
                        Values(p, f)[k] = Targets(f)[j]})

\* the sum of matchCount_f over the criterion fields
MatchCounts(p) ==
    MatchCount(p, "subject") + MatchCount(p, "type") + MatchCount(p, "domain")

\* the page lies in or under the directory of the reference
UnderReferenceDirectory(p) ==
    IsPrefix(Directory(Reference.path), Directory(p.path))

\* C21: the totalScore of every candidate is its path score plus, for every
\* criterion field it matches, matchCount_f * scoreMultiplier; the path score
\* is 0 when path scoring is off or the candidate is not under the
\* reference's directory.
C21_TotalScore ==
    called => \A i \in 1..Len(results) :
        /\ results[i].totalScore =
              PathScore(results[i].scores)
              + MatchCounts(results[i].concept) * options.scoreMultiplier
        /\ (options.includePath = False
                \/ ~UnderReferenceDirectory(results[i].concept))
              => PathScore(results[i].scores) = 0

\* C22: a candidate whose maxPossibleScore is 0 has confidence exactly 0,
\* whatever its totalScore; no confidence is NaN or Infinity (a fraction over
\* 0).
C22_ZeroMaxIsZeroConfidence ==
    called => \A i \in 1..Len(results) :
        /\ results[i].confidence.den > 0
        /\ results[i].maxPossibleScore = 0
              => results[i].confidence.num = 0

\* a strict call without a value to match on returned a page that has path
\* points
C22_Witness ==
    /\ called
    /\ \E i \in 1..Len(filtered) :
          /\ filtered[i].maxPossibleScore = 0
          /\ filtered[i].totalScore > 0
          /\ filtered[i].confidence.num = 0

\* C23: with includePath = false no candidate has path points or is there
\* because of its location (each has the score of a field), every result has
\* inSamePath = false, and with strictPath = true the list returned is empty.
C23_NoPathScoring ==
    (called /\ options.includePath = False) =>
        /\ \A i \in 1..Len(results) :
              /\ PathScore(results[i].scores) = 0
              /\ ~results[i].inSamePath
              /\ \E j \in 1..Len(results[i].scores) :
                    results[i].scores[j].key \in FieldNames
        /\ options.strictPath => filtered = <<>>

\* a call with includePath = false and strictPath = true that scored a page
\* of the reference's folder on a field
C23_Witness ==
    /\ called
    /\ options.includePath = False
    /\ options.strictPath
    /\ options.minScore = 0
    /\ filtered = <<>>
    /\ \E i \in 1..Len(results) :
          /\ results[i].concept.path # Reference.path
          /\ Directory(results[i].concept.path) = Directory(Reference.path)

\* the options of the call with other path options
WithPath(includePath, strictPath) ==
    [options EXCEPT !.includePath = includePath, !.strictPath = strictPath]

\* C24: a call with includePath = "strict" returns exactly the list of the
\* call with includePath = true and strictPath = true, whatever strictPath
\* it was given.
C24_StrictIsTrueAndStrictPath ==
    (called /\ options.includePath = Str("strict"))
        => filtered = GetRelatedConcepts(pages, Reference, WithPath(True, TRUE))

\* a call with includePath = "strict" and strictPath = false that returned a
\* page and dropped one outside the folder
C24_Witness ==
    /\ called
    /\ options.includePath = Str("strict")
    /\ ~options.strictPath
    /\ filtered # <<>>
    /\ \E i \in 1..Len(results) : ~results[i].inSamePath

\* C25: missing data contributes zero: a candidate that lacks a criterion
\* field has no score for it; a reference whose path has no directory segment
\* has the empty directory, under which every other page lies (2 points at
\* the root, 1 point below it); and when no criterion yields a value to match
\* on, every candidate is scored on its path alone.
C25_MissingDataContributesZero ==
    called =>
        /\ \A i \in 1..Len(results) : \A f \in FieldNames :
              ~Truthy(PageField(results[i].concept, f))
                  => \A j \in 1..Len(results[i].scores) :
                        results[i].scores[j].key # f
        /\ (Directory(Reference.path) = <<>> /\ options.includePath # False)
              => \A k \in 1..Len(pages) :
                    k # current
                        => PathScoreOf(pages[k]) =
                              (IF Directory(pages[k].path) = <<>>
                               THEN Pts(2) ELSE Pts(1))
        /\ NoTargets
              => \A i \in 1..Len(results) :
                    /\ results[i].totalScore = PathScore(results[i].scores)
                    /\ \A j \in 1..Len(results[i].scores) :
                          results[i].scores[j].key = "path"

\* a call on a page at the root of the vault that returned a page of a
\* folder which lacks a field the call matches on
C25_Witness ==
    /\ called
    /\ Directory(Reference.path) = <<>>
    /\ options.includePath = True
    /\ \E i \in 1..Len(filtered) : \E f \in FieldNames :
          /\ Directory(filtered[i].concept.path) # <<>>
          /\ Targets(f) # <<>>
          /\ ~Truthy(PageField(filtered[i].concept, f))

\* C26: a call is read-only: it leaves every document of the store as it was
\* (none added, removed or changed), and the matchCriteria of the object it
\* was handed is, after the call, the matchCriteria it was handed.
C26_ReadOnly ==
    [][ called' => /\ pages' = pages
                   /\ current' = current
                   /\ argument'.matchCriteria = options'.matchCriteria ]_vars

\* a call handed an empty matchCriteria that scored on the default criteria
C26_Witness ==
    /\ called
    /\ wrapper = NoWrapper
    /\ argument.matchCriteria = <<>>
    /\ Len(pages) = 2
    /\ \E i \in 1..Len(filtered) :
          \E j \in 1..Len(filtered[i].scores) :
              filtered[i].scores[j].key \in FieldNames

\* C27: the list returned holds no two results for the same document: the
\* paths of the results are pairwise distinct.
C27_DistinctDocuments ==
    called => \A i, j \in 1..Len(filtered) :
                 i # j => filtered[i].concept.path # filtered[j].concept.path

\* a call that returned a page found by path scoring and by two fields
C27_Witness ==
    /\ called
    /\ \E i \in 1..Len(filtered) :
          /\ PathScore(filtered[i].scores) > 0
          /\ Cardinality({j \in 1..Len(filtered[i].scores) :
                            /\ filtered[i].scores[j].key \in FieldNames
                            /\ filtered[i].scores[j].score > 0}) >= 2

\* a qualifying candidate that is not in the list returned
LeftOut(q) == \A i \in 1..Len(filtered) : filtered[i] # q

\* C28: truncation comes after the strictPath and minScore filters and
\* keeps the best: of k qualifying candidates exactly min(k, maxResults) are
\* returned, and a qualifying candidate that was left out has a confidence no
\* higher than that of any result returned.
C28_TruncationKeepsBest ==
    called =>
        /\ Len(filtered) = (IF Len(Qualifying) < options.maxResults
                            THEN Len(Qualifying) ELSE options.maxResults)
        /\ \A k \in 1..Len(Qualifying) : \A i \in 1..Len(filtered) :
              LeftOut(Qualifying[k]) => AsConfident(filtered[i], Qualifying[k])

\* the call was handed criteria, and every one of them is null or false
OnlyIgnoredCriteria ==
    /\ options.matchCriteria # <<>>
    /\ \A i \in 1..Len(options.matchCriteria) :
          options.matchCriteria[i].value = Null
              \/ options.matchCriteria[i].value = False

\* C29: a matchCriteria that is not empty but holds only ignored fields does
\* not fall back to the default criteria: no candidate is scored on a field,
\* and with includePath = false the list returned is empty (where an empty
\* matchCriteria scores on subject, type and domain).
C29_OnlyIgnoredIsNotDefaulted ==
    (called /\ OnlyIgnoredCriteria) =>
        /\ \A i \in 1..Len(results) : \A j \in 1..Len(results[i].scores) :
              results[i].scores[j].key = "path"
        /\ options.includePath = False => filtered = <<>>

\* a call with only ignored criteria and includePath = false that returned
\* nothing, where the same call with an empty matchCriteria returns another
\* page
C29_Witness ==
    /\ called
    /\ OnlyIgnoredCriteria
    /\ options.includePath = False
    /\ filtered = <<>>
    /\ LET defaulted == GetRelatedConcepts(pages, Reference, WithCriteria(<<>>))
       IN  \E i \in 1..Len(defaulted) :
               defaulted[i].concept.path # Reference.path

\* the minScore values (percentages) the call is compared with
MinScores == {0, 50, 60, 66, 100}

\* the list the call returns for another minScore: the chain of lines
\* 999-1003 over the same scored candidates
ListWithMinScore(m) == Filtered(results, [options EXCEPT !.minScore = m])

\* one list is the other's beginning
IsPrefixOf(a, b) == Len(a) =< Len(b) /\ \A i \in 1..Len(a) : a[i] = b[i]

\* C30: raising minScore only shortens the output: the list returned with a
\* higher minScore is a prefix of the list returned with a lower one.
C30_MinScoreShortens ==
    called => \A m \in MinScores :
        /\ m >= options.minScore => IsPrefixOf(ListWithMinScore(m), filtered)
        /\ m =< options.minScore => IsPrefixOf(filtered, ListWithMinScore(m))

\* a call whose list loses its last result, and only that, at a higher
\* minScore
C30_Witness ==
    /\ called
    /\ Len(filtered) = 2
    /\ \E m \in MinScores :
          /\ m > options.minScore
          /\ Len(ListWithMinScore(m)) = 1
          /\ ListWithMinScore(m)[1] = filtered[1]

====
